---- MODULE Spec2Model ----
(***************************************************************************)
(* Order-to-inventory reconciliation job of src/main.py: orders of two     *)
(* Shopify stores are applied to a ledger sheet (Blad1), to two dated      *)
(* sales tables (Blad2, Blad3) and to the processed_orders table.          *)
(*                                                                         *)
(* Product keys are Python floats with at most one decimal; they are kept  *)
(* here as integers in tenths (149.0 is 1490, 22.5 is 225).  Dates are     *)
(* day numbers, ordered as their ISO strings are; 0 is the empty string.   *)
(* A sheet cell is a pair <<kind, n>>: a number, the empty cell or text    *)
(* that is no number.  A rolling average is kept in hundredths.            *)
(***************************************************************************)
EXTENDS Integers, Sequences, FiniteSets, TLC

VARIABLES pc, run, today, db, blad1, blad2, blad3,
          processed_orders, inventory, sold_data, shop, orders,
          all_new_processed_ids, total_sales_log, total_sales_log_usa,
          shop_orders, wrote, applied, http, warnings, arg, result, at_start

vars == <<pc, run, today, db, blad1, blad2, blad3,
          processed_orders, inventory, sold_data, shop, orders,
          all_new_processed_ids, total_sales_log, total_sales_log_usa,
          shop_orders, wrote, applied, http, warnings, arg, result, at_start>>

-----------------------------------------------------------------------------
(* Bounds of the model *)

MaxRuns == 2
MaxRows == 2
MaxIds == 2

-----------------------------------------------------------------------------
(* Values *)

None == <<>>
Some(x) == <<x>>

Num(n) == <<"num", n>>
Blank == <<"blank", 0>>
Junk == <<"junk", 0>>

KeyUniverse == {1490, 225, 70}

Put(f, k, v) == [x \in DOMAIN f \cup {k} |-> IF x = k THEN v ELSE f[x]]

EmptyMap == [x \in {} |-> 0]

IndexOf(s, x) == CHOOSE i \in 1..Len(s) : s[i] = x /\ \A j \in 1..(i - 1) : s[j] # x

Contains(s, x) == \E i \in 1..Len(s) : s[i] = x

\* K of the value of v, with v evaluated once
With(v, K(_)) == CHOOSE r \in { K(x) : x \in {v} } : TRUE

-----------------------------------------------------------------------------
(* Utilities *)

format_perfume_number_for_sheet(num_float) ==
    IF num_float % 10 = 0
    THEN ToString(num_float \div 10)
    ELSE ToString(num_float \div 10) \o "." \o ToString(num_float % 10)

\* float(text) of a header or of a "nummer:" cell: "149" and "149.0" both give 149.0
float(text) ==
    LET hits == {k \in KeyUniverse :
                    \/ text = format_perfume_number_for_sheet(k)
                    \/ k % 10 = 0 /\ text = ToString(k \div 10) \o ".0"}
    IN  IF hits = {} THEN None ELSE Some(CHOOSE k \in hits : TRUE)

-----------------------------------------------------------------------------
(* Texts: a title or a property value is the sequence of its characters *)

Digits == <<"0", "1", "2", "3", "4", "5", "6", "7", "8", "9">>

UpperCase == <<"A", "B", "C", "D", "E", "F", "G", "H", "I", "J", "K", "L", "M",
               "N", "O", "P", "Q", "R", "S", "T", "U", "V", "W", "X", "Y", "Z">>

LowerCase == <<"a", "b", "c", "d", "e", "f", "g", "h", "i", "j", "k", "l", "m",
               "n", "o", "p", "q", "r", "s", "t", "u", "v", "w", "x", "y", "z">>

IsDigit(c) == Contains(Digits, c)

\* \w of the regular expression
IsWord(c) == IsDigit(c) \/ Contains(LowerCase, c) \/ Contains(UpperCase, c) \/ c = "_"

\* str.lower()
lower(text) ==
    [i \in 1..Len(text) |->
        IF Contains(UpperCase, text[i]) THEN LowerCase[IndexOf(UpperCase, text[i])]
        ELSE text[i]]

\* needle in text
In(needle, text) ==
    \E i \in 1..(Len(text) - Len(needle) + 1) :
        SubSeq(text, i, i + Len(needle) - 1) = needle

\* the number of digits that start at position i
RECURSIVE DigitRun(_, _)
DigitRun(text, i) ==
    IF i <= Len(text) /\ IsDigit(text[i]) THEN 1 + DigitRun(text, i + 1) ELSE 0

\* \b between positions j and j + 1
WordBoundary(text, j) ==
    (j >= 1 /\ j <= Len(text) /\ IsWord(text[j]))
        # (j + 1 <= Len(text) /\ IsWord(text[j + 1]))

\* (?:\.\d+)?\b after the digits that end at j: the fraction of f digits, then
\* the shorter ones, then none; the end of the match or 0
RECURSIVE FractionEnd(_, _, _)
FractionEnd(text, j, f) ==
    IF f >= 1
    THEN IF WordBoundary(text, j + 1 + f) THEN j + 1 + f ELSE FractionEnd(text, j, f - 1)
    ELSE IF WordBoundary(text, j) THEN j ELSE 0

MaxDigits == 3

\* \d{1,3} from position i with n digits, then with fewer
RECURSIVE MatchEnd(_, _, _)
MatchEnd(text, i, n) ==
    IF n < 1 THEN 0
    ELSE LET j == i + n - 1
             f == IF j + 1 <= Len(text) /\ text[j + 1] = "." THEN DigitRun(text, j + 2)
                  ELSE 0
             e == FractionEnd(text, j, f)
         IN  IF e # 0 THEN e ELSE MatchEnd(text, i, n - 1)

\* re.search(r"(\d{1,3}(?:\.\d+)?)\b", value): group 1 of the leftmost match
RECURSIVE re_search(_, _)
re_search(value, i) ==
    IF i > Len(value) THEN None
    ELSE LET digits == DigitRun(value, i)
             e == MatchEnd(value, i, IF digits > MaxDigits THEN MaxDigits ELSE digits)
         IN  IF e # 0 THEN Some(SubSeq(value, i, e)) ELSE re_search(value, i + 1)

RECURSIVE DigitsValue(_)
DigitsValue(ds) ==
    IF ds = <<>> THEN 0
    ELSE 10 * DigitsValue(SubSeq(ds, 1, Len(ds) - 1)) + (IndexOf(Digits, ds[Len(ds)]) - 1)

RECURSIVE StripZeros(_)
StripZeros(ds) ==
    IF ds # <<>> /\ ds[Len(ds)] = "0" THEN StripZeros(SubSeq(ds, 1, Len(ds) - 1)) ELSE ds

\* float(group) of digits with an optional fraction, in tenths; a value with
\* more decimals than one gets a number of its own above every key in tenths
float_of_match(group) ==
    LET n == DigitRun(group, 1)
        whole == DigitsValue(SubSeq(group, 1, n))
        frac == StripZeros(SubSeq(group, n + 2, Len(group)))
    IN  IF frac = <<>> THEN 10 * whole
        ELSE IF Len(frac) = 1 THEN 10 * whole + DigitsValue(frac)
        ELSE 1000000 * Len(frac) + DigitsValue(SubSeq(group, 1, n) \o frac)

extract_perfume_number(value) ==
    LET match == re_search(value, 1)
    IN  IF match = None THEN None ELSE Some(float_of_match(match[1]))

IsSampleExact(title) == In(<<"s", "a", "m", "p", "l", "e">>, title)

\* "sample" in title.lower()
IsSample(title) == In(<<"s", "a", "m", "p", "l", "e">>, lower(title))

\* "Fragrance Bundle" in title
IsBundle(title) ==
    In(<<"F", "r", "a", "g", "r", "a", "n", "c", "e", " ", "B", "u", "n", "d", "l", "e">>,
       title)

\* "3x" in title
Has3x(title) == In(<<"3", "x">>, title)

-----------------------------------------------------------------------------
(* Stores *)

SHOP_DOMAIN_1 == "first-shop.myshopify.com"
SHOP_DOMAIN_2 == "second-shop.myshopify.com"

SHOPIFY_CONFIGS ==
    << [domain |-> SHOP_DOMAIN_1, use_prefix |-> FALSE],
       [domain |-> SHOP_DOMAIN_2, use_prefix |-> TRUE] >>

\* f"{shop_domain}_{raw_id}" or raw_id
NoPrefixOrderId(shop_domain, raw_id, use_prefix) == ToString(raw_id)

UniqueOrderId(shop_domain, raw_id, use_prefix) ==
    IF use_prefix THEN shop_domain \o "_" \o ToString(raw_id) ELSE ToString(raw_id)

-----------------------------------------------------------------------------
(* PostgreSQL: processed_orders is a sequence of rows, one order_id each *)

InsertAlways(rows, oid) == Append(rows, oid)

\* INSERT ... ON CONFLICT (order_id) DO NOTHING
InsertOnConflictDoNothing(rows, oid) ==
    IF Contains(rows, oid) THEN rows ELSE Append(rows, oid)

RECURSIVE InsertAll(_, _)
InsertAll(rows, order_ids) ==
    IF order_ids = <<>> THEN rows
    ELSE InsertAll(InsertOnConflictDoNothing(rows, Head(order_ids)), Tail(order_ids))

save_processed_orders_to_db(rows, order_ids) ==
    IF order_ids = <<>> THEN rows ELSE InsertAll(rows, order_ids)

load_processed_orders_from_db(rows) == {rows[i] : i \in 1..Len(rows)}

-----------------------------------------------------------------------------
(* Blad1: the data rows of the ledger sheet, row i of blad1 is sheet row i + 1 *)

RECURSIVE ReadLedgerRows(_, _, _)
ReadLedgerRows(records, inv, sld) ==
    IF records = <<>> THEN [inventory |-> inv, sold |-> sld]
    ELSE LET row == Head(records)
             rest == Tail(records)
             nummer_float == float(row.nummer)
         IN  IF row.antal = Blank THEN ReadLedgerRows(rest, inv, sld)
             ELSE IF nummer_float = None THEN ReadLedgerRows(rest, inv, sld)
             ELSE IF row.antal[1] = "junk" THEN ReadLedgerRows(rest, inv, sld)
             ELSE LET k == nummer_float[1]
                      inv2 == Put(inv, k, row.antal[2])
                  IN  IF row.sold = Blank THEN ReadLedgerRows(rest, inv2, Put(sld, k, 0))
                      ELSE IF row.sold[1] = "junk" THEN ReadLedgerRows(rest, inv2, sld)
                      ELSE ReadLedgerRows(rest, inv2, Put(sld, k, row.sold[2]))

get_inventory_and_sold(sheet) == ReadLedgerRows(sheet, EmptyMap, EmptyMap)

-----------------------------------------------------------------------------
(* Sales logs: entries [date, key, qty] in the order the dicts were filled *)

LogHas(log, d, k) == \E i \in 1..Len(log) : log[i].date = d /\ log[i].key = k

PutInLog(log, d, k, qty) ==
    IF LogHas(log, d, k)
    THEN [i \in 1..Len(log) |->
            IF log[i].date = d /\ log[i].key = k
            THEN [log[i] EXCEPT !.qty = qty] ELSE log[i]]
    ELSE Append(log, [date |-> d, key |-> k, qty |-> qty])

\* log.setdefault(d, {}).setdefault(k, 0); log[d][k] += qty
AddToLog(log, d, k, qty) ==
    IF LogHas(log, d, k)
    THEN [i \in 1..Len(log) |->
            IF log[i].date = d /\ log[i].key = k
            THEN [log[i] EXCEPT !.qty = @ + qty] ELSE log[i]]
    ELSE Append(log, [date |-> d, key |-> k, qty |-> qty])

RECURSIVE MergeLog(_, _)
MergeLog(total, log) ==
    IF log = <<>> THEN total
    ELSE MergeLog(AddToLog(total, Head(log).date, Head(log).key, Head(log).qty), Tail(log))

-----------------------------------------------------------------------------
(* fetch_new_orders.  The store serves its orders as a sequence of pages; a  *)
(* page's URL is its index.  attempts are the status codes the remote gives *)
(* to the calls to come, 200 once they are used up.                         *)

\* func raises APIError for every answer but 200 when it is a gspread call
\* (raises) and returns the response whatever its status when it is requests.get
RECURSIVE safe_api_call(_, _)
safe_api_call(raises, attempts) ==
    IF attempts = <<>> THEN [status |-> 200, raised |-> FALSE, rest |-> <<>>]
    ELSE IF raises /\ Head(attempts) = 429 THEN safe_api_call(raises, Tail(attempts))
    ELSE [status |-> Head(attempts), raised |-> raises /\ Head(attempts) # 200,
          rest |-> Tail(attempts)]

\* the Link header of the store's answer for a page: its parts, none for no header
LinkHeader(pages, endpoint) ==
    (IF endpoint > 1 THEN << [url |-> endpoint - 1, rel |-> "previous"] >> ELSE <<>>)
    \o (IF endpoint < Len(pages) THEN << [url |-> endpoint + 1, rel |-> "next"] >> ELSE <<>>)

NoNextLink(link_header) == None

\* the URL of the first part with rel="next"
NextLink(link_header) ==
    IF \E i \in 1..Len(link_header) : link_header[i].rel = "next"
    THEN Some(link_header[CHOOSE i \in 1..Len(link_header) :
                            /\ link_header[i].rel = "next"
                            /\ \A j \in 1..(i - 1) : link_header[j].rel # "next"].url)
    ELSE None

\* the while loop: one request per pass
RECURSIVE FetchPages(_, _, _, _, _)
FetchPages(pages, endpoint, attempts, orders_so_far, requested) ==
    LET response == safe_api_call(FALSE, attempts)
        requested2 == Append(requested, endpoint)
    IN  IF response.status = 200
        THEN LET fetched_orders == pages[endpoint]
                 orders2 == orders_so_far \o fetched_orders
                 next_link == NextLink(LinkHeader(pages, endpoint))
             IN  IF next_link # None
                 THEN FetchPages(pages, next_link[1], response.rest, orders2, requested2)
                 ELSE [orders |-> orders2, requested |-> requested2, status |-> 200]
        ELSE [orders |-> orders_so_far, requested |-> requested2,
              status |-> response.status]

fetch_new_orders(pages, attempts) == FetchPages(pages, 1, attempts, <<>>, <<>>)

\* the ways a store cuts its list of orders into pages
RECURSIVE Splits(_)
Splits(order_list) ==
    IF order_list = <<>> THEN { <<>> }
    ELSE UNION { { <<SubSeq(order_list, 1, k)>> \o rest :
                     rest \in Splits(SubSeq(order_list, k + 1, Len(order_list))) } :
                 k \in 1..Len(order_list) }

Paginations(order_list) ==
    IF order_list = <<>> THEN { << <<>> >> } ELSE Splits(order_list)

Attempts == { <<>>, <<429>>, <<500>>, <<200, 429>>, <<200, 500>>, <<429, 200>> }

-----------------------------------------------------------------------------
(* process_orders *)

\* datetime.strptime(order['created_at'], "%Y-%m-%dT%H:%M:%S%z").date(): the date
\* as the timestamp writes it, whatever its offset
order_date_str(order) == order.created_at.date

is_usa_order(order) == order.country_code = "US"

InInventory(perfume_number, inv) ==
    perfume_number # None /\ perfume_number[1] \in DOMAIN inv

SaleKeepsSold(st, k, quantity, order) ==
    [st EXCEPT !.inventory[k] = @ - quantity,
               !.sales_log = AddToLog(@, order_date_str(order), k, quantity)]

\* the body run for one resolved key that is in inventory;
\* sold[k] += quantity raises KeyError when sold lacks k
ApplySale(st, k, quantity, order) ==
    IF k \notin DOMAIN st.sold
    THEN [st EXCEPT !.ok = FALSE, !.inventory[k] = @ - quantity]
    ELSE [st EXCEPT
            !.inventory[k] = @ - quantity,
            !.sold[k] = @ + quantity,
            !.sales_log = AddToLog(@, order_date_str(order), k, quantity),
            !.sales_log_usa = IF is_usa_order(order)
                              THEN AddToLog(@, order_date_str(order), k, quantity)
                              ELSE @]

RECURSIVE ProcessBundleProps(_, _, _, _)
ProcessBundleProps(st, props, quantity, order) ==
    IF props = <<>> \/ ~st.ok THEN st
    ELSE LET Prop(perfume_number) ==
                 IF InInventory(perfume_number, st.inventory)
                 THEN [ApplySale(st, perfume_number[1], quantity, order)
                         EXCEPT !.perfumes_processed = @ + 1]
                 ELSE st
             Rest(st2) == ProcessBundleProps(st2, Tail(props), quantity, order)
         IN  With(With(extract_perfume_number(Head(props)), Prop), Rest)

ExpectTwo(title) == 2

\* expected_count = 3 if "3x" in title else 2
expected_count(title) == IF Has3x(title) THEN 3 ELSE 2

ProcessItem(st, item, order) ==
    IF IsSample(item.title) THEN st
    ELSE IF IsBundle(item.title)
    THEN LET Count(st2) ==
                 IF st2.ok /\ st2.perfumes_processed # expected_count(item.title)
                 THEN [st2 EXCEPT !.warnings = @ + 1] ELSE st2
         IN  With(ProcessBundleProps([st EXCEPT !.perfumes_processed = 0],
                                     item.properties, item.quantity, order), Count)
    ELSE LET Sale(perfume_number) ==
                 IF InInventory(perfume_number, st.inventory)
                 THEN ApplySale(st, perfume_number[1], item.quantity, order)
                 ELSE st
         IN  With(extract_perfume_number(item.title), Sale)

RECURSIVE ProcessItems(_, _, _)
ProcessItems(st, items, order) ==
    IF items = <<>> \/ ~st.ok THEN st
    ELSE LET Rest(st2) == ProcessItems(st2, Tail(items), order)
         IN  With(ProcessItem(st, Head(items), order), Rest)

SkipNever(unique_order_id, already_processed_orders) == FALSE

AlreadyProcessed(unique_order_id, already_processed_orders) ==
    unique_order_id \in already_processed_orders

MarkIfSold(st, unique_order_id, before) ==
    IF st.sold = before.sold THEN st
    ELSE [st EXCEPT !.new_processed_order_ids = Append(@, unique_order_id)]

\* new_processed_order_ids.append(unique_order_id)
MarkProcessed(st, unique_order_id, before) ==
    [st EXCEPT !.new_processed_order_ids = Append(@, unique_order_id)]

ProcessOrder(st, order, shop_domain, already_processed_orders, use_prefix) ==
    LET unique_order_id == UniqueOrderId(shop_domain, order.id, use_prefix)
        Mark(st2) == IF st2.ok THEN MarkProcessed(st2, unique_order_id, st) ELSE st2
    IN  IF AlreadyProcessed(unique_order_id, already_processed_orders) THEN st
        ELSE With(ProcessItems(st, order.line_items, order), Mark)

RECURSIVE ProcessOrderList(_, _, _, _, _)
ProcessOrderList(st, order_list, shop_domain, already_processed_orders, use_prefix) ==
    IF order_list = <<>> \/ ~st.ok THEN st
    ELSE LET Rest(st2) == ProcessOrderList(st2, Tail(order_list), shop_domain,
                                           already_processed_orders, use_prefix)
         IN  With(ProcessOrder(st, Head(order_list), shop_domain,
                               already_processed_orders, use_prefix), Rest)

process_orders(shop_domain, order_list, inv, sld, already_processed_orders, use_prefix) ==
    ProcessOrderList(
        [ok |-> TRUE, inventory |-> inv, sold |-> sld,
         new_processed_order_ids |-> <<>>, sales_log |-> <<>>, sales_log_usa |-> <<>>,
         perfumes_processed |-> 0, warnings |-> 0],
        order_list, shop_domain, already_processed_orders, use_prefix)

-----------------------------------------------------------------------------
(* Blad2 / Blad3: a dated sales table.  hdr is row 1 (its first cell labels *)
(* the date column), rows are the rows below it: row.d is column A and      *)
(* row.v the cells of columns 2..Len(hdr).                                  *)

RECURSIVE Blanks(_)
Blanks(n) == IF n <= 0 THEN <<>> ELSE <<Blank>> \o Blanks(n - 1)

RECURSIVE Zeros(_)
Zeros(n) == IF n <= 0 THEN <<>> ELSE <<0>> \o Zeros(n - 1)

\* worksheet.insert_row([date_str], index)
insert_row(table, date_str, index) ==
    LET new_row == [d |-> date_str, v |-> Blanks(Len(table.hdr) - 1)]
    IN  [table EXCEPT !.rows = SubSeq(@, 1, index - 2) \o <<new_row>>
                                \o SubSeq(@, index - 1, Len(@))]

\* worksheet.cell(row, col).value, blank outside the data
cell(table, row, col) ==
    IF row - 1 \in 1..Len(table.rows) /\ col - 1 \in 1..Len(table.rows[row - 1].v)
    THEN table.rows[row - 1].v[col - 1]
    ELSE Blank

\* worksheet.update_cells(cells): a later cell of the list overwrites an earlier one
RECURSIVE update_cells(_, _)
update_cells(table, cells) ==
    IF cells = <<>> THEN table
    ELSE LET c == Head(cells)
             t2 == IF c.row - 1 \in 1..Len(table.rows)
                      /\ c.col - 1 \in 1..Len(table.rows[c.row - 1].v)
                   THEN [table EXCEPT !.rows[c.row - 1].v[c.col - 1] = Num(c.val)]
                   ELSE table
         IN  update_cells(t2, Tail(cells))

ensure_columns_for_fragrance(table, fragrance_number_float) ==
    LET fragrance_header_str == format_perfume_number_for_sheet(fragrance_number_float)
        current_headers == table.hdr
    IN  IF Contains(current_headers, fragrance_header_str) THEN table
        ELSE [hdr |-> Append(current_headers, fragrance_header_str),
              rows |-> [i \in 1..Len(table.rows) |->
                          [table.rows[i] EXCEPT !.v = Append(@, Blank)]]]

\* the position of date_str in sorted(all_dates[1:] + [date_str]), from 0
SortedIndex(dates, date_str) == Cardinality({i \in 1..Len(dates) : dates[i] < date_str})

InsertPos(dates, date_str) == SortedIndex(dates, date_str) + 2

\* dates is the date column of the rows of sales_data below its header
find_or_create_row_for_date(table, date_str, dates) ==
    IF Contains(dates, date_str)
    THEN [sheet |-> table, row_index |-> IndexOf(dates, date_str) + 1]
    ELSE LET insert_pos == InsertPos(dates, date_str)
         IN  [sheet |-> insert_row(table, date_str, insert_pos), row_index |-> insert_pos]

RECURSIVE SortedDates(_)
SortedDates(S) ==
    IF S = {} THEN <<>>
    ELSE LET m == CHOOSE x \in S : \A y \in S : x <= y
         IN  <<m>> \o SortedDates(S \ {m})

LogDates(log) == {log[i].date : i \in 1..Len(log)}

EntriesOf(log, d) == SelectSeq(log, LAMBDA e : e.date = d)

\* one pass of the inner loop: a (fragrance, qty) of the date at row_index
SalesEntry(st, row_index, e) ==
    LET sheet2 == ensure_columns_for_fragrance(st.sheet, e.key)
        headers == sheet2.hdr
        col_index == IndexOf(headers, format_perfume_number_for_sheet(e.key))
        current_value_str == cell(sheet2, row_index, col_index)
    IN  IF current_value_str[1] = "junk"
        THEN [st EXCEPT !.ok = FALSE, !.sheet = sheet2]
        ELSE [st EXCEPT !.sheet = sheet2,
                        !.cell_updates = Append(@, [row |-> row_index, col |-> col_index,
                                                    val |-> current_value_str[2] + e.qty])]

RECURSIVE SalesEntries(_, _, _)
SalesEntries(st, row_index, entries) ==
    IF entries = <<>> \/ ~st.ok THEN st
    ELSE SalesEntries(SalesEntry(st, row_index, Head(entries)), row_index, Tail(entries))

\* one pass of the outer loop: a date of the sorted log
SalesDate(st, date_str, log) ==
    LET found == find_or_create_row_for_date(st.sheet, date_str, st.dates)
        row_index == found.row_index
        needed_rows == row_index - (Len(st.dates) + 1)
        dates2 == IF row_index - 1 >= Len(st.dates) + 1
                  THEN st.dates \o Zeros(needed_rows) ELSE st.dates
    IN  SalesEntries([st EXCEPT !.sheet = found.sheet, !.dates = dates2],
                     row_index, EntriesOf(log, date_str))

RECURSIVE SalesDates(_, _, _)
SalesDates(st, date_list, log) ==
    IF date_list = <<>> \/ ~st.ok THEN st
    ELSE SalesDates(SalesDate(st, Head(date_list), log), Tail(date_list), log)

\* update_sales_data and update_sales_data_usa: the same code on Blad2 and Blad3
update_sales_data(table, sales_log) ==
    IF sales_log = <<>> THEN [ok |-> TRUE, sheet |-> table]
    ELSE LET st == SalesDates(
                     [ok |-> TRUE, sheet |-> table,
                      dates |-> [i \in 1..Len(table.rows) |-> table.rows[i].d],
                      cell_updates |-> <<>>],
                     SortedDates(LogDates(sales_log)), sales_log)
         IN  IF st.ok
             THEN [ok |-> TRUE, sheet |-> update_cells(st.sheet, st.cell_updates)]
             ELSE [ok |-> FALSE, sheet |-> st.sheet]

-----------------------------------------------------------------------------
(* update_7d_rolling_average_in_blad1 *)

WindowBack == 6
WindowDays == 7
Divisor == 7

EightDaysWindow(t) == t - (WindowBack + 1)

seven_days_ago(t) == t - WindowBack

\* round(total_7d / 7.0, 2), in hundredths
RoundedAverage(total_7d) == (200 * total_7d + Divisor) \div (2 * Divisor)

\* [(col_index, float(headers[col_index]))] for the headers that are numbers
RECURSIVE PerfumeColumns(_, _)
PerfumeColumns(headers, col) ==
    IF col > Len(headers) THEN <<>>
    ELSE LET perfume_number == float(headers[col])
         IN  (IF perfume_number = None THEN <<>>
              ELSE << [idx |-> col, p |-> perfume_number[1]] >>)
             \o PerfumeColumns(headers, col + 1)

\* int(cell_value) if cell_value else 0, and 0 on ValueError
QtySold(cell_value) == IF cell_value[1] = "num" THEN cell_value[2] ELSE 0

MapGet(m, k) == IF k \in DOMAIN m THEN m[k] ELSE 0

RECURSIVE AddRowToSalesMap(_, _, _)
AddRowToSalesMap(sales_map, row, cols) ==
    IF cols = <<>> THEN sales_map
    ELSE LET c == Head(cols)
             at == <<c.p, row.d>>
         IN  AddRowToSalesMap(
                 Put(sales_map, at, MapGet(sales_map, at) + QtySold(row.v[c.idx - 1])),
                 row, Tail(cols))

RECURSIVE BuildSalesMap(_, _, _, _)
BuildSalesMap(sales_map, rows, cols, t) ==
    IF rows = <<>> THEN sales_map
    ELSE LET row == Head(rows)
         IN  IF row.d <= 0 THEN BuildSalesMap(sales_map, Tail(rows), cols, t)
             ELSE IF row.d < seven_days_ago(t) \/ row.d > t
             THEN BuildSalesMap(sales_map, Tail(rows), cols, t)
             ELSE BuildSalesMap(AddRowToSalesMap(sales_map, row, cols), Tail(rows), cols, t)

RECURSIVE Total7d(_, _, _, _)
Total7d(sales_map, p_number, t, d_offset) ==
    IF d_offset >= WindowDays THEN 0
    ELSE MapGet(sales_map, <<p_number, seven_days_ago(t) + d_offset>>)
         + Total7d(sales_map, p_number, t, d_offset + 1)

\* perfume_7d_avg: a value for every perfume that sales_map holds
Perfume7dAvg(table, t) ==
    LET sales_map == BuildSalesMap(EmptyMap, table.rows, PerfumeColumns(table.hdr, 2), t)
        perfumes == {at[1] : at \in DOMAIN sales_map}
    IN  [p \in perfumes |-> RoundedAverage(Total7d(sales_map, p, t, 0))]

\* perfume -> sheet row of Blad1, the last row of a number winning
PerfumeToRow(sheet) ==
    LET rows_of(p) == {i \in 1..Len(sheet) : float(sheet[i].nummer) = Some(p)}
        perfumes == {p \in KeyUniverse : rows_of(p) # {}}
    IN  [p \in perfumes |-> 1 + CHOOSE i \in rows_of(p) : \A j \in rows_of(p) : j <= i]

update_7d_rolling_average_in_blad1(sheet, table, t) ==
    IF Len(table.hdr) < 2 THEN sheet
    ELSE LET perfume_7d_avg == Perfume7dAvg(table, t)
             perfume_to_row == PerfumeToRow(sheet)
         IN  [i \in 1..Len(sheet) |->
                IF \E p \in DOMAIN perfume_7d_avg :
                       p \in DOMAIN perfume_to_row /\ perfume_to_row[p] = i + 1
                THEN [sheet[i] EXCEPT !.avg =
                        Num(perfume_7d_avg[CHOOSE p \in DOMAIN perfume_7d_avg :
                              p \in DOMAIN perfume_to_row /\ perfume_to_row[p] = i + 1])]
                ELSE sheet[i]]

-----------------------------------------------------------------------------
(* The orders the two stores hold, and the sheets the job starts from *)

Item(title, quantity) == [title |-> title, quantity |-> quantity, properties |-> <<>>]

Bundle(title, quantity, properties) ==
    [title |-> title, quantity |-> quantity, properties |-> properties]

\* a created_at of the given date and hour, written with the given UTC offset
\* (in hours)
At(date, hour, offset) == [date |-> date, hour |-> hour, offset |-> offset]

Order(id, created_at, country_code, line_items) ==
    [id |-> id, created_at |-> created_at, country_code |-> country_code,
     line_items |-> line_items]

Parfym149 == <<"P", "a", "r", "f", "y", "m", " ", "1", "4", "9">>
Edt225 == <<"2", "2", ".", "5", " ", "E", "D", "T">>
Sample149 == <<"S", "a", "m", "p", "l", "e", " ", "1", "4", "9">>
GiftCard == <<"G", "i", "f", "t", " ", "c", "a", "r", "d">>
Parfym7 == <<"P", "a", "r", "f", "y", "m", " ", "7">>
FragranceBundle ==
    <<"F", "r", "a", "g", "r", "a", "n", "c", "e", " ", "B", "u", "n", "d", "l", "e">>
FragranceBundle3x == FragranceBundle \o <<" ", "3", "x">>
Value149 == <<"1", "4", "9">>
Value225 == <<"2", "2", ".", "5">>
Value7 == <<"7">>
ValueRose == <<"r", "o", "s", "e">>

A1 == Order(1001, At(9, 12, 1), "SE", << Item(Parfym149, 1) >>)
A2 == Order(1002, At(8, 22, -5), "US", << Item(Edt225, 2), Item(Sample149, 1) >>)
A3 == Order(1003, At(10, 0, 2), "SE", << Item(GiftCard, 1), Item(Parfym7, 1) >>)
A4 == Order(1004, At(9, 10, -5), "US",
            << Bundle(FragranceBundle3x, 1, <<Value149, Value225, ValueRose>>) >>)
B1 == Order(1001, At(9, 12, 0), "US", << Item(Parfym149, 2) >>)
B2 == Order(2002, At(10, 8, 0), "", << Bundle(FragranceBundle, 1, <<Value149, Value7>>) >>)

ShopOrderLists ==
    { <<l1, l2>> : l1 \in { <<>>, <<A1>>, <<A1, A1>>, <<A2, A1>>, <<A3>>, <<A1, A4>> },
                   l2 \in { <<>>, <<B1>>, <<B1, B2>> } }

LedgerRow(nummer, antal, sold, avg) ==
    [nummer |-> nummer, antal |-> antal, sold |-> sold, avg |-> avg]

Ledger1 ==
    << LedgerRow("149", Num(5), Num(0), Blank), LedgerRow("22.5", Num(3), Blank, Blank) >>

Ledger2 ==
    << LedgerRow("149", Num(5), Num(2), Num(29)), LedgerRow("22.5", Num(1), Junk, Num(43)),
       LedgerRow("x", Num(1), Blank, Blank) >>

Ledger3 ==
    << LedgerRow("22.5", Num(4), Num(1), Num(14)), LedgerRow("7", Blank, Blank, Blank) >>

LedgerSheets == {Ledger1, Ledger2, Ledger3}

SalesRow(d, v) == [d |-> d, v |-> v]

SalesTable(hdr, rows) == [hdr |-> hdr, rows |-> rows]

EmptyTable == SalesTable(<<"Datum">>, <<>>)

SalesTables ==
    { EmptyTable,
      SalesTable(<<"Datum", "149">>, << SalesRow(3, <<Num(14)>>), SalesRow(9, <<Num(2)>>) >>),
      SalesTable(<<"Datum", "22.5", "149">>, << SalesRow(9, <<Junk, Num(1)>>) >>) }

Today == {10}

-----------------------------------------------------------------------------
(* main *)

Init ==
    /\ pc = "start"
    /\ run = 1
    /\ today \in Today
    /\ db \in { <<>>, <<"1001">> }
    /\ blad1 \in LedgerSheets
    /\ blad2 \in SalesTables
    /\ blad3 = EmptyTable
    /\ shop_orders \in ShopOrderLists
    /\ processed_orders = {}
    /\ inventory = EmptyMap
    /\ sold_data = EmptyMap
    /\ shop = 1
    /\ orders = <<>>
    /\ all_new_processed_ids = <<>>
    /\ total_sales_log = <<>>
    /\ total_sales_log_usa = <<>>
    /\ wrote = {}
    /\ applied = <<>>
    /\ http = <<>>
    /\ warnings = 0
    /\ arg = <<>>
    /\ result = None
    /\ at_start = <<db, blad1, blad2, blad3>>

persistent == <<db, blad1, blad2, blad3>>
locals == <<processed_orders, inventory, sold_data, shop, orders,
            all_new_processed_ids, total_sales_log, total_sales_log_usa>>
\* at_start: the persistent state as the run found it
env == <<run, today, shop_orders, at_start>>
\* what the run printed: the requests of its fetch_new_orders calls and the
\* number of its bundle count warnings
traces == <<http, warnings>>
\* the argument and the return value of a call of extract_perfume_number alone
probe == <<arg, result>>

\* steps 1-4: create_table_if_not_exists, load_processed_orders_from_db,
\* get_inventory_and_sold
Load ==
    /\ pc = "start"
    /\ processed_orders' = load_processed_orders_from_db(db)
    /\ LET r == get_inventory_and_sold(blad1)
       IN  inventory' = r.inventory /\ sold_data' = r.sold
    /\ all_new_processed_ids' = <<>>
    /\ total_sales_log' = <<>>
    /\ total_sales_log_usa' = <<>>
    /\ shop' = 1
    /\ pc' = "fetch"
    /\ UNCHANGED <<persistent, env, probe, traces, orders, wrote, applied>>

AfterShop(s) == IF s < Len(SHOPIFY_CONFIGS) THEN "fetch" ELSE "save"

\* step 5: fetch_new_orders of the current store, which serves pages and answers
\* with attempts; an empty list skips the store
FetchAnswered(pages, attempts) ==
    /\ pc = "fetch"
    /\ LET r == fetch_new_orders(pages, attempts)
       IN  /\ orders' = r.orders
           /\ http' = Append(http, [pages |-> pages, attempts |-> attempts,
                                    requested |-> r.requested, status |-> r.status,
                                    orders |-> r.orders])
    /\ IF orders' = <<>>
       THEN pc' = AfterShop(shop) /\ shop' = IF shop < Len(SHOPIFY_CONFIGS) THEN shop + 1 ELSE shop
       ELSE pc' = "process" /\ shop' = shop
    /\ UNCHANGED <<persistent, env, probe, warnings, processed_orders, inventory, sold_data,
                   all_new_processed_ids, total_sales_log, total_sales_log_usa,
                   wrote, applied>>

\* the store answers the one request of a one-page list with 200
Fetch == FetchAnswered(<< shop_orders[shop] >>, <<>>)

\* the store serves the list in pages of its choice and answers as it likes
FetchPaged ==
    \E pages \in Paginations(shop_orders[shop]) : \E attempts \in Attempts :
        FetchAnswered(pages, attempts)

\* step 6 with the second store working on a snapshot of its own
ProcessOwnSnapshot ==
    /\ pc = "process"
    /\ LET cfg == SHOPIFY_CONFIGS[shop]
           own == get_inventory_and_sold(blad1)
           r == process_orders(cfg.domain, orders,
                               IF shop = 2 THEN own.inventory ELSE inventory,
                               IF shop = 2 THEN own.sold ELSE sold_data,
                               processed_orders, cfg.use_prefix)
       IN  /\ inventory' = r.inventory
           /\ sold_data' = r.sold
           /\ IF r.ok
              THEN /\ all_new_processed_ids' =
                          all_new_processed_ids \o r.new_processed_order_ids
                   /\ total_sales_log' = MergeLog(total_sales_log, r.sales_log)
                   /\ total_sales_log_usa' = MergeLog(total_sales_log_usa, r.sales_log_usa)
                   /\ pc' = AfterShop(shop)
                   /\ shop' = IF shop < Len(SHOPIFY_CONFIGS) THEN shop + 1 ELSE shop
              ELSE /\ pc' = "failed"
                   /\ UNCHANGED <<all_new_processed_ids, total_sales_log,
                                  total_sales_log_usa, shop>>
           /\ warnings' = warnings + r.warnings
    /\ UNCHANGED <<persistent, env, probe, http, processed_orders, orders, wrote, applied>>

\* step 6: process_orders and the merge of its logs into the totals
Process ==
    /\ pc = "process"
    /\ LET cfg == SHOPIFY_CONFIGS[shop]
           r == process_orders(cfg.domain, orders, inventory, sold_data,
                               processed_orders, cfg.use_prefix)
       IN  /\ inventory' = r.inventory
           /\ sold_data' = r.sold
           /\ IF r.ok
              THEN /\ all_new_processed_ids' =
                          all_new_processed_ids \o r.new_processed_order_ids
                   /\ total_sales_log' = MergeLog(total_sales_log, r.sales_log)
                   /\ total_sales_log_usa' = MergeLog(total_sales_log_usa, r.sales_log_usa)
                   /\ pc' = AfterShop(shop)
                   /\ shop' = IF shop < Len(SHOPIFY_CONFIGS) THEN shop + 1 ELSE shop
              ELSE /\ pc' = "failed"
                   /\ UNCHANGED <<all_new_processed_ids, total_sales_log,
                                  total_sales_log_usa, shop>>
           /\ warnings' = warnings + r.warnings
    /\ UNCHANGED <<persistent, env, probe, http, processed_orders, orders, wrote, applied>>

\* step 7a
Save ==
    /\ pc = "save"
    /\ db' = save_processed_orders_to_db(db, all_new_processed_ids)
    /\ wrote' = IF all_new_processed_ids # <<>> THEN wrote \cup {"db"} ELSE wrote
    /\ pc' = "sales"
    /\ UNCHANGED <<blad1, blad2, blad3, env, probe, traces, locals, applied>>

\* step 7b
UpdateSales ==
    /\ pc = "sales"
    /\ LET r == update_sales_data(blad2, total_sales_log)
       IN  /\ blad2' = r.sheet
           /\ pc' = IF r.ok THEN "sales_usa" ELSE "failed"
           /\ wrote' = IF r.ok /\ total_sales_log # <<>> THEN wrote \cup {"blad2"} ELSE wrote
    /\ UNCHANGED <<db, blad1, blad3, env, probe, traces, locals, applied>>

\* step 7c
UpdateSalesUsa ==
    /\ pc = "sales_usa"
    /\ LET r == update_sales_data(blad3, total_sales_log_usa)
       IN  /\ blad3' = r.sheet
           /\ pc' = IF r.ok THEN "ledger" ELSE "failed"
           /\ wrote' = IF r.ok /\ total_sales_log_usa # <<>>
                       THEN wrote \cup {"blad3"} ELSE wrote
    /\ UNCHANGED <<db, blad1, blad2, env, probe, traces, locals, applied>>

\* step 8: the cells of column 2 (Antal) for the perfumes the sheet has a row of
WriteColumn(sheet, column, values) ==
    LET perfume_to_row == PerfumeToRow(sheet)
        hit(i) == {p \in DOMAIN values : p \in DOMAIN perfume_to_row
                                          /\ perfume_to_row[p] = i + 1}
    IN  [i \in 1..Len(sheet) |->
            IF hit(i) = {} THEN sheet[i]
            ELSE IF column = 2
            THEN [sheet[i] EXCEPT !.antal = Num(values[CHOOSE p \in hit(i) : TRUE])]
            ELSE [sheet[i] EXCEPT !.sold = Num(values[CHOOSE p \in hit(i) : TRUE])]]

HasUpdates(sheet, values) == \E p \in DOMAIN values : p \in DOMAIN PerfumeToRow(sheet)

FlushInventory ==
    /\ pc = "ledger"
    /\ blad1' = WriteColumn(blad1, 2, inventory)
    /\ wrote' = IF HasUpdates(blad1, inventory) THEN wrote \cup {"antal"} ELSE wrote
    /\ applied' = IF HasUpdates(blad1, inventory)
                  THEN applied \o all_new_processed_ids ELSE applied
    /\ pc' = "sold"
    /\ UNCHANGED <<db, blad2, blad3, env, probe, traces, locals>>

FlushSold ==
    /\ pc = "sold"
    /\ blad1' = WriteColumn(blad1, 3, sold_data)
    /\ wrote' = IF HasUpdates(blad1, sold_data) THEN wrote \cup {"sold"} ELSE wrote
    /\ pc' = "avg"
    /\ UNCHANGED <<db, blad2, blad3, env, probe, traces, locals, applied>>

\* if cell_updates: some perfume with an average has a row in Blad1
HasAverageUpdates(sheet, table, t) ==
    /\ Len(table.hdr) >= 2
    /\ \E p \in DOMAIN Perfume7dAvg(table, t) : p \in DOMAIN PerfumeToRow(sheet)

\* step 9
UpdateAverage ==
    /\ pc = "avg"
    /\ blad1' = update_7d_rolling_average_in_blad1(blad1, blad2, today)
    /\ wrote' = IF HasAverageUpdates(blad1, blad2, today) THEN wrote \cup {"avg"} ELSE wrote
    /\ pc' = "done"
    /\ UNCHANGED <<db, blad2, blad3, env, probe, traces, locals, applied>>

RemoteSteps == {"start", "fetch", "save", "sales", "sales_usa", "ledger", "sold", "avg"}

\* a remote call raises: except Exception ... "No changes saved."
Fail ==
    /\ pc \in RemoteSteps
    /\ pc' = "failed"
    /\ UNCHANGED <<persistent, env, probe, traces, locals, wrote, applied>>

\* the job is started again
NextRun ==
    /\ pc \in {"done", "failed"}
    /\ run < MaxRuns
    /\ run' = run + 1
    /\ pc' = "start"
    /\ processed_orders' = {}
    /\ inventory' = EmptyMap
    /\ sold_data' = EmptyMap
    /\ shop' = 1
    /\ orders' = <<>>
    /\ all_new_processed_ids' = <<>>
    /\ total_sales_log' = <<>>
    /\ total_sales_log_usa' = <<>>
    /\ wrote' = {}
    /\ http' = <<>>
    /\ warnings' = 0
    /\ at_start' = persistent
    /\ UNCHANGED <<persistent, today, shop_orders, applied, probe>>

Next ==
    \/ Load
    \/ Fetch
    \/ Process
    \/ Save
    \/ UpdateSales
    \/ UpdateSalesUsa
    \/ FlushInventory
    \/ FlushSold
    \/ UpdateAverage
    \/ Fail
    \/ NextRun

Spec == Init /\ [][Next]_vars

-----------------------------------------------------------------------------
(* One run of main against stores that page their lists and answer with any *)
(* status                                                                    *)

InitFetch ==
    /\ Init
    /\ blad1 = Ledger1

NextFetch ==
    \/ Load
    \/ FetchPaged
    \/ Process
    \/ Save
    \/ UpdateSales
    \/ UpdateSalesUsa
    \/ FlushInventory
    \/ FlushSold
    \/ UpdateAverage
    \/ Fail

SpecFetch == InitFetch /\ [][NextFetch]_vars

-----------------------------------------------------------------------------
(* The rolling average alone, on sales tables of any content *)

AvgDates == {3, 4, 10, 11}

AvgCells == {Blank, Num(14), Num(3)}

AvgRows(width) == {SalesRow(d, v) : d \in AvgDates, v \in [1..width -> AvgCells]}

RowsUpTo(n, width) == UNION {[1..m -> AvgRows(width)] : m \in 0..n}

AvgTables ==
    {SalesTable(<<"Datum", "149">>, r) : r \in RowsUpTo(MaxRows, 1)}
    \cup {SalesTable(h, r) :
            h \in { <<"Datum", "149", "22.5">>, <<"Datum", "149", "149.0">>,
                    <<"Datum", "Notes", "22.5">> },
            r \in RowsUpTo(MaxRows - 1, 2)}
    \cup SalesTables

Idle ==
    /\ run = 1
    /\ shop_orders = << <<>>, <<>> >>
    /\ processed_orders = {}
    /\ inventory = EmptyMap
    /\ sold_data = EmptyMap
    /\ shop = 1
    /\ orders = <<>>
    /\ total_sales_log = <<>>
    /\ total_sales_log_usa = <<>>
    /\ wrote = {}
    /\ applied = <<>>
    /\ http = <<>>
    /\ warnings = 0
    /\ arg = <<>>
    /\ result = None
    /\ at_start = <<db, blad1, blad2, blad3>>

InitAvg ==
    /\ pc = "avg"
    /\ today \in Today
    /\ db = <<>>
    /\ blad1 \in {Ledger2, Ledger3}
    /\ blad2 \in AvgTables
    /\ blad3 = EmptyTable
    /\ all_new_processed_ids = <<>>
    /\ Idle

NextAvg == UpdateAverage

SpecAvg == InitAvg /\ [][NextAvg]_vars

-----------------------------------------------------------------------------
(* save_processed_orders_to_db alone, on any list of ids *)

IdUniverse ==
    {"1001", "1002", "second-shop.myshopify.com_1001", "second-shop.myshopify.com_2002"}

IdLists == UNION {[1..m -> IdUniverse] : m \in 0..MaxIds}

InitDb ==
    /\ pc = "db"
    /\ today \in Today
    /\ db = <<>>
    /\ blad1 = Ledger1
    /\ blad2 = EmptyTable
    /\ blad3 = EmptyTable
    /\ all_new_processed_ids = <<>>
    /\ Idle

SaveIds ==
    /\ pc = "db"
    /\ \E order_ids \in IdLists :
        /\ all_new_processed_ids' = order_ids
        /\ db' = save_processed_orders_to_db(db, order_ids)
    /\ UNCHANGED <<pc, blad1, blad2, blad3, env, probe, traces,
                   processed_orders, inventory, sold_data,
                   shop, orders, total_sales_log, total_sales_log_usa, wrote, applied>>

NextDb == SaveIds

SpecDb == InitDb /\ [][NextDb]_vars

-----------------------------------------------------------------------------
(* process_orders alone, on an order of line items of any title *)

MaxItems == 2

MixedSample225 == <<"2", "2", ".", "5", " ", "s", "A", "M", "P", "L", "e">>
SampleBundle3x == <<"S", "A", "M", "P", "L", "E", " ">> \o FragranceBundle3x

ItemUniverse ==
    { Item(t, 1) : t \in {Parfym149, Edt225, Sample149, MixedSample225, GiftCard} }
    \cup { Item(t, 2) : t \in {Parfym149, MixedSample225} }
    \cup { Bundle(t, 1, p) :
              t \in {FragranceBundle3x, FragranceBundle},
              p \in { <<Value149, Value225, ValueRose>>, <<Value149, Value225>>,
                      <<Value149, Value225, Value149>>, <<Sample149>> } }
    \cup { Bundle(SampleBundle3x, 1, <<Value149, Value225, ValueRose>>) }

ItemLists == UNION { [1..n -> ItemUniverse] : n \in 1..MaxItems }

InitItems ==
    /\ pc = "process"
    /\ run = 1
    /\ today \in Today
    /\ db = <<>>
    /\ blad1 \in LedgerSheets
    /\ blad2 = EmptyTable
    /\ blad3 = EmptyTable
    /\ \E line_items \in ItemLists :
          orders = << Order(1001, At(9, 12, 0), "US", line_items) >>
    /\ shop_orders = << orders, <<>> >>
    /\ processed_orders = {}
    /\ inventory = get_inventory_and_sold(blad1).inventory
    /\ sold_data = get_inventory_and_sold(blad1).sold
    /\ shop = 1
    /\ all_new_processed_ids = <<>>
    /\ total_sales_log = <<>>
    /\ total_sales_log_usa = <<>>
    /\ wrote = {}
    /\ applied = <<>>
    /\ http = <<>>
    /\ warnings = 0
    /\ arg = <<>>
    /\ result = None
    /\ at_start = <<db, blad1, blad2, blad3>>

NextItems == Process

SpecItems == InitItems /\ [][NextItems]_vars

-----------------------------------------------------------------------------
(* extract_perfume_number alone, on any short text and on the titles above *)

MaxLen == 4

Alphabet == {"1", "2", ".", "a", " "}

Sample22 == <<"S", "a", "m", "p", "l", "e", " ", "2", "2">>

Texts ==
    UNION { [1..n -> Alphabet] : n \in 0..MaxLen }
    \cup {Sample22, Parfym149, Edt225, Sample149, GiftCard, Parfym7, FragranceBundle3x}

InitResolve ==
    /\ pc = "resolve"
    /\ today \in Today
    /\ db = <<>>
    /\ blad1 = Ledger1
    /\ blad2 = EmptyTable
    /\ blad3 = EmptyTable
    /\ all_new_processed_ids = <<>>
    /\ run = 1
    /\ shop_orders = << <<>>, <<>> >>
    /\ processed_orders = {}
    /\ inventory = EmptyMap
    /\ sold_data = EmptyMap
    /\ shop = 1
    /\ orders = <<>>
    /\ total_sales_log = <<>>
    /\ total_sales_log_usa = <<>>
    /\ wrote = {}
    /\ applied = <<>>
    /\ http = <<>>
    /\ warnings = 0
    /\ arg \in Texts
    /\ result = None
    /\ at_start = <<db, blad1, blad2, blad3>>

Resolve ==
    /\ pc = "resolve"
    /\ result' = extract_perfume_number(arg)
    /\ pc' = "resolved"
    /\ UNCHANGED <<persistent, env, locals, traces, wrote, applied, arg>>

NextResolve == Resolve

SpecResolve == InitResolve /\ [][NextResolve]_vars

-----------------------------------------------------------------------------
(* What the claims speak of, stated on the orders and sheets themselves *)

RECURSIVE SumUpTo(_, _)
SumUpTo(f, n) == IF n <= 0 THEN 0 ELSE f[n] + SumUpTo(f, n - 1)

NoDuplicates(s) == \A i, j \in 1..Len(s) : i # j => s[i] # s[j]

OrderDates == {8, 9, 10}

\* the id a store's order is known by: prefixed for the second store only
OwnIdForm(s, raw_id) ==
    IF s = 2 THEN "second-shop.myshopify.com_" \o ToString(raw_id) ELSE ToString(raw_id)

Unrecorded(s, order_list, already) ==
    SelectSeq(order_list, LAMBDA o : OwnIdForm(s, o.id) \notin already)

ResolvedCount(texts, k) ==
    Cardinality({j \in 1..Len(texts) : extract_perfume_number(texts[j]) = Some(k)})

\* the quantity of key k a line item sells
ItemQty(item, k) ==
    IF IsSample(item.title) THEN 0
    ELSE IF IsBundle(item.title) THEN item.quantity * ResolvedCount(item.properties, k)
    ELSE IF extract_perfume_number(item.title) = Some(k) THEN item.quantity
    ELSE 0

OrderQty(o, k) ==
    SumUpTo([j \in 1..Len(o.line_items) |-> ItemQty(o.line_items[j], k)], Len(o.line_items))

ListQty(order_list, k) ==
    SumUpTo([i \in 1..Len(order_list) |-> OrderQty(order_list[i], k)], Len(order_list))

ListQtyOn(order_list, d, k) ==
    SumUpTo([i \in 1..Len(order_list) |->
                IF order_date_str(order_list[i]) = d THEN OrderQty(order_list[i], k)
                ELSE 0],
            Len(order_list))

LogQty(log, d, k) ==
    SumUpTo([i \in 1..Len(log) |->
                IF log[i].date = d /\ log[i].key = k THEN log[i].qty ELSE 0], Len(log))

ValueOf(c) == IF c = Blank THEN Num(0) ELSE c

LedgerValues(sheet, k) ==
    [i \in 1..Len(sheet) |->
        IF float(sheet[i].nummer) = Some(k)
        THEN <<ValueOf(sheet[i].antal), ValueOf(sheet[i].sold)>> ELSE <<>>]

\* the (date, cell) pairs of the filled cells in the columns labelled with key k
FilledCells(table, k) ==
    { <<table.rows[i].d, table.rows[i].v[c - 1]>> :
        <<i, c>> \in { ic \in (1..Len(table.rows)) \X (2..Len(table.hdr)) :
                         /\ table.hdr[ic[2]] = format_perfume_number_for_sheet(k)
                         /\ table.rows[ic[1]].v[ic[2] - 1] # Blank } }

ProcessReturned == pc = "process" /\ pc' # "failed"

-----------------------------------------------------------------------------
\* C1: no order's effects are written to the ledger sheet more than once, over
\* any sequence of runs and for any fetched order list (also one that holds the
\* same order id twice): applied, the ids of the orders whose effects a run
\* flushed to the sheet, never holds an id twice.
C1_NoOrderAppliedTwice == NoDuplicates(applied)

\* C2: a run that ends in failure never leaves an order that changed the
\* snapshots with its id in processed_orders while the run's sales log and its
\* inventory and sold columns were not written back.
C2_RecordedOnlyWithEffects ==
    pc = "failed" =>
        \A s \in 1..2 : \A i \in 1..Len(shop_orders[s]) :
            LET o == shop_orders[s][i]
                uid == OwnIdForm(s, o.id)
            IN  ( /\ Contains(all_new_processed_ids, uid)
                  /\ Contains(db, uid)
                  /\ \E k \in DOMAIN inventory : OrderQty(o, k) > 0 )
                => {"blad2", "antal", "sold"} \subseteq wrote

\* C3: an order whose id was recorded before a run changes nothing in that run.
\* For every key k such that every fetched order selling k is in the processed
\* set the run loaded, no step of the run changes the inventory and sold values
\* of k in the ledger sheet or a filled cell of k's column in Blad2 or Blad3.
AllRecordedFor(k) ==
    \A s \in 1..2 : \A i \in 1..Len(shop_orders[s]) :
        OrderQty(shop_orders[s][i], k) > 0
            => OwnIdForm(s, shop_orders[s][i].id) \in processed_orders

C3_RecordedOrderChangesNothing ==
    [][ \A k \in KeyUniverse :
            (pc # "start" /\ AllRecordedFor(k)) =>
                /\ LedgerValues(blad1', k) = LedgerValues(blad1, k)
                /\ FilledCells(blad2', k) = FilledCells(blad2, k)
                /\ FilledCells(blad3', k) = FilledCells(blad3, k) ]_vars

\* order 1001 was applied once by the first run (5 - 1 = 4) and the second run,
\* which fetched it again and wrote the inventory column, left 4
C3_Witness ==
    /\ run = 2 /\ pc = "done" /\ "antal" \in wrote
    /\ shop_orders = << <<A1>>, <<>> >>
    /\ "1001" \in processed_orders
    /\ applied = <<"1001">>
    /\ blad1[1].nummer = "149" /\ blad1[1].antal = Num(4) /\ blad1[1].sold = Num(1)

C5_EveryUnskippedOrderMarked ==
    [][ ProcessReturned =>
          LET new == Unrecorded(shop, orders, processed_orders)
          IN  all_new_processed_ids' =
                all_new_processed_ids \o [i \in 1..Len(new) |-> OwnIdForm(shop, new[i].id)]
      ]_vars

\* order 1003 (a gift card and a perfume the ledger does not hold) sold nothing
\* and is marked processed
C5_Witness ==
    /\ pc = "save"
    /\ shop_orders = << <<A3>>, <<>> >>
    /\ all_new_processed_ids = <<"1003">>
    /\ total_sales_log = <<>>

\* C7: an order is skipped exactly when its own store's form of its id is in
\* the processed set: after process_orders returns, an order of the list is
\* among the new ids (under its store's form) iff that form was not in the set.
C7_SkippedIffOwnFormRecorded ==
    [][ ProcessReturned =>
          \A i \in 1..Len(orders) :
             LET uid == OwnIdForm(shop, orders[i].id)
             IN  uid \in processed_orders
                    <=> ~Contains(SubSeq(all_new_processed_ids',
                                         Len(all_new_processed_ids) + 1,
                                         Len(all_new_processed_ids')), uid)
      ]_vars

\* "1001" was recorded for the first store: its order 1001 is skipped, the
\* second store's order 1001 is processed under its prefixed id
C7_Witness ==
    /\ pc = "save"
    /\ "1001" \in processed_orders
    /\ shop_orders[1] = <<A1>> /\ shop_orders[2] = <<B1>>
    /\ all_new_processed_ids = <<"second-shop.myshopify.com_1001">>
    /\ LogQty(total_sales_log, 9, 1490) = 2

\* C6: save_processed_orders_to_db is an upsert over a set: after a save of any
\* list of ids the table holds every id it held and every id of the list, each
\* once, and a list of ids that are all stored leaves the table as it was.
C6_SaveIsUpsert ==
    [][ LET order_ids == all_new_processed_ids'
            saved == {order_ids[i] : i \in 1..Len(order_ids)}
        IN  /\ load_processed_orders_from_db(db')
                = load_processed_orders_from_db(db) \cup saved
            /\ NoDuplicates(db')
            /\ saved \subseteq load_processed_orders_from_db(db) => db' = db ]_vars

\* "1001" was stored, then saved twice more in one list: it is stored once
C6_Witness ==
    /\ pc = "db"
    /\ all_new_processed_ids = <<"1001", "1001">>
    /\ db = <<"1002", "1001">>

\* the cells of key k in the rows dated d, blank counting 0
CellSum(table, d, k) ==
    LET at == { ic \in (1..Len(table.rows)) \X (2..Len(table.hdr)) :
                  /\ table.rows[ic[1]].d = d
                  /\ table.hdr[ic[2]] = format_perfume_number_for_sheet(k) }
        RECURSIVE Sum(_)
        Sum(S) == IF S = {} THEN 0
                  ELSE LET x == CHOOSE y \in S : TRUE
                       IN  QtySold(table.rows[x[1]].v[x[2] - 1]) + Sum(S \ {x})
    IN  Sum(at)

TableDates == {3} \cup OrderDates

\* C8: update_sales_data adds the log to the table: after it, the cell of every
\* (date, key) is its value before (blank = 0) plus the logged quantity, and a
\* cell of no logged (date, key) keeps its value.
C8_MergedByAddition ==
    [][ (pc = "sales" /\ pc' = "sales_usa") =>
          \A d \in TableDates : \A k \in KeyUniverse :
              CellSum(blad2', d, k) = CellSum(blad2, d, k) + LogQty(total_sales_log, d, k)
      ]_vars

\* the quantities of key p in the rows dated within the 7 days ending on day t
WindowTotal(table, p, t) ==
    LET at == { ic \in (1..Len(table.rows)) \X (2..Len(table.hdr)) :
                  /\ table.rows[ic[1]].d >= t - 6
                  /\ table.rows[ic[1]].d <= t
                  /\ float(table.hdr[ic[2]]) = Some(p) }
        RECURSIVE Sum(_)
        Sum(S) == IF S = {} THEN 0
                  ELSE LET x == CHOOSE y \in S : TRUE
                       IN  QtySold(table.rows[x[1]].v[x[2] - 1]) + Sum(S \ {x})
    IN  Sum(at)

\* h hundredths is total / 7 rounded to 2 decimals
IsSeventhRounded(h, total) == 2 * (7 * h - 100 * total) \in -7..7

HasColumn(table, p) == \E c \in 2..Len(table.hdr) : float(table.hdr[c]) = Some(p)

HasWindowRow(table, t) ==
    \E i \in 1..Len(table.rows) : table.rows[i].d >= t - 6 /\ table.rows[i].d <= t

AverageStep == pc = "avg" /\ pc' = "done"

\* C9: the average written for a key that has a ledger row, a column and a row
\* in the window is the sum of the key's column over the rows dated within the
\* 7 days ending today, divided by 7 and rounded to 2 decimals.
C9_AverageOverSevenDays ==
    [][ AverageStep =>
          \A i \in 1..Len(blad1) :
             LET p == float(blad1[i].nummer)
             IN  (p # None /\ HasColumn(blad2, p[1]) /\ HasWindowRow(blad2, today))
                 => /\ blad1'[i].avg[1] = "num"
                    /\ IsSeventhRounded(blad1'[i].avg[2], WindowTotal(blad2, p[1], today))
      ]_vars

\* the table's only row is dated today with 14 for 149: the average is 2.0
C9_Witness ==
    /\ pc = "done"
    /\ blad2 = SalesTable(<<"Datum", "149">>, << SalesRow(today, <<Num(14)>>) >>)
    /\ \E i \in 1..Len(blad1) : blad1[i].nummer = "149" /\ blad1[i].avg = Num(200)

\* C10: after the update the average cell of every key with a ledger row and a
\* column in the sales table holds the value derived from the table on this run,
\* 0 when no row falls in the window.
C10_AlwaysRecomputed ==
    [][ AverageStep =>
          \A i \in 1..Len(blad1) :
             LET p == float(blad1[i].nummer)
             IN  (p # None /\ HasColumn(blad2, p[1]))
                 => /\ blad1'[i].avg[1] = "num"
                    /\ IsSeventhRounded(blad1'[i].avg[2], WindowTotal(blad2, p[1], today))
      ]_vars

-----------------------------------------------------------------------------
\* the orders of all pages, in page order
RECURSIVE Flatten(_)
Flatten(pages) == IF pages = <<>> THEN <<>> ELSE Head(pages) \o Flatten(Tail(pages))

OnlyRateLimited(attempts) == \A a \in 1..Len(attempts) : attempts[a] \in {200, 429}

PastProcessing == {"save", "sales", "sales_usa", "ledger", "sold", "avg", "done"}

\* C11: a 429 answer is never surfaced and never ends the call chain: a call of
\* fetch_new_orders whose requests were answered with 200 or 429 only ends on a
\* 200 answer and returns the orders of all pages of the store.
C11_RateLimitNeverTruncates ==
    \A i \in 1..Len(http) :
        OnlyRateLimited(http[i].attempts)
            => /\ http[i].status = 200
               /\ http[i].orders = Flatten(http[i].pages)

\* C12: an answer that is neither 2xx nor 429 to an order request aborts the
\* run: a run one of whose fetch_new_orders calls ended on such an answer never
\* gets past order processing to the saving of ids or the writing of sheets.
C12_HardErrorAbortsRun ==
    \A i \in 1..Len(http) :
        http[i].status \notin {200, 429} => pc \notin PastProcessing

FetchReturned == pc = "fetch" /\ Len(http') = Len(http) + 1

\* C13: when every request of a fetch_new_orders call is answered 200, the call
\* requests the pages 1, 2, ... up to the last one, each once and in this order,
\* and returns the orders of all pages in page order.
C13_AllPagesInOrder ==
    [][ (FetchReturned /\ http'[Len(http')].status = 200) =>
          LET call == http'[Len(http')]
          IN  /\ call.requested = [n \in 1..Len(call.pages) |-> n]
              /\ orders' = Flatten(call.pages)
              /\ orders' = shop_orders[shop] ]_vars

\* the first store served orders 1001 and 1004 on two pages, both were answered
\* 200 and both orders are in the list that is processed next
C13_Witness ==
    /\ pc = "process"
    /\ shop = 1
    /\ Len(http) = 1
    /\ http[1].pages = << <<A1>>, <<A4>> >>
    /\ http[1].requested = <<1, 2>>
    /\ http[1].status = 200
    /\ orders = <<A1, A4>>

-----------------------------------------------------------------------------
AllFetchedRecorded ==
    \A s \in 1..2 : \A i \in 1..Len(shop_orders[s]) :
        OwnIdForm(s, shop_orders[s][i].id) \in processed_orders

\* C14: a run after another one, with no sheet changed in between, in which
\* every fetched order is in the processed set it loaded makes no remote write
\* call: none to processed_orders, to Blad2 or Blad3 or to a column of Blad1.
C14_SteadyStateWritesNothing ==
    (pc = "done" /\ run > 1 /\ AllFetchedRecorded) => wrote = {}

\* C15: the inventory and the sold columns are flushed together or not at all:
\* at the end of a run, completed or failed, that has cells to write for both,
\* the inventory column was written iff the sold column was.
C15_FlushedTogether ==
    ( /\ pc \in {"done", "failed"}
      /\ HasUpdates(blad1, inventory)
      /\ HasUpdates(blad1, sold_data) )
        => ("antal" \in wrote <=> "sold" \in wrote)

\* C16: a cell that is no number never aborts the run: whatever the cells of
\* the ledger sheet and of the sales tables hold, process_orders and the two
\* sales table updates return (the offending row or line item is skipped).
C16_DataShapeErrorsNeverAbort ==
    /\ pc = "process" =>
          process_orders(SHOPIFY_CONFIGS[shop].domain, orders, inventory, sold_data,
                         processed_orders, SHOPIFY_CONFIGS[shop].use_prefix).ok
    /\ pc = "sales" => update_sales_data(blad2, total_sales_log).ok
    /\ pc = "sales_usa" => update_sales_data(blad3, total_sales_log_usa).ok

-----------------------------------------------------------------------------
\* the calendar date in UTC of the instant a creation timestamp denotes
UtcDate(created_at) == created_at.date + ((created_at.hour - created_at.offset) \div 24)

ListQtyOnUtc(order_list, d, k) ==
    SumUpTo([i \in 1..Len(order_list) |->
                IF UtcDate(order_list[i].created_at) = d THEN OrderQty(order_list[i], k)
                ELSE 0],
            Len(order_list))

\* C19: an order's sales are logged under the UTC calendar date of its
\* creation timestamp, whatever the offset of the timestamp: when process_orders
\* returns, the sales log of each date and key of the snapshots is raised by the
\* quantity sold by the unprocessed orders whose UTC date it is.
C19_LoggedUnderUtcDate ==
    [][ ProcessReturned =>
          LET new == Unrecorded(shop, orders, processed_orders)
          IN  \A k \in DOMAIN inventory : \A d \in OrderDates :
                LogQty(total_sales_log', d, k)
                    = LogQty(total_sales_log, d, k) + ListQtyOnUtc(new, d, k) ]_vars

-----------------------------------------------------------------------------
\* the properties of a bundle that resolve to a key of the inventory snapshot
ResolvedInInventory(item, inv) ==
    Cardinality({ j \in 1..Len(item.properties) :
                    LET k == extract_perfume_number(item.properties[j])
                    IN  k # None /\ k[1] \in DOMAIN inv })

\* the title holds the letters of "sample", each in either case
SampleInAnyCase(title) ==
    \E i \in 1..(Len(title) - 5) :
        /\ title[i] \in {"s", "S"} /\ title[i + 1] \in {"a", "A"}
        /\ title[i + 2] \in {"m", "M"} /\ title[i + 3] \in {"p", "P"}
        /\ title[i + 4] \in {"l", "L"} /\ title[i + 5] \in {"e", "E"}

\* the bundle line items whose count of resolved properties is not the
\* expected one: 3 with the "3x" marker, 2 without
Mismatched(item, inv) ==
    /\ ~SampleInAnyCase(item.title)
    /\ IsBundle(item.title)
    /\ ResolvedInInventory(item, inv) # (IF In(<<"3", "x">>, item.title) THEN 3 ELSE 2)

MismatchCount(order_list, inv) ==
    SumUpTo([i \in 1..Len(order_list) |->
                Cardinality({ j \in 1..Len(order_list[i].line_items) :
                                Mismatched(order_list[i].line_items[j], inv) })],
            Len(order_list))

\* C17: a bundle whose count of resolved properties is not the expected one (3
\* with the "3x" marker, 2 without) is reported with one warning and is applied
\* all the same: when process_orders returns, it has printed one warning per
\* such line item, every key of the snapshots is lowered in inventory and raised
\* in sold and in the sales log by the quantity the line items sell of it, and
\* every unprocessed order is marked processed.
C17_MismatchWarnsAndApplies ==
    [][ ProcessReturned =>
          LET new == Unrecorded(shop, orders, processed_orders)
          IN  /\ warnings' = warnings + MismatchCount(new, inventory)
              /\ \A k \in DOMAIN inventory :
                    /\ inventory'[k] = inventory[k] - ListQty(new, k)
                    /\ k \in DOMAIN sold_data
                          => sold_data'[k] = sold_data[k] + ListQty(new, k)
                    /\ \A d \in OrderDates :
                          LogQty(total_sales_log', d, k)
                              = LogQty(total_sales_log, d, k) + ListQtyOn(new, d, k)
              /\ \A i \in 1..Len(new) :
                    Contains(all_new_processed_ids', OwnIdForm(shop, new[i].id)) ]_vars

\* a "3x" bundle of 149, 22.5 and rose: one warning, 149 and 22.5 each sold
\* once (5 - 1 and 3 - 1), the order marked processed
C17_Witness ==
    /\ pc = "fetch"
    /\ orders = << Order(1001, At(9, 12, 0), "US",
                     << Bundle(FragranceBundle3x, 1, <<Value149, Value225, ValueRose>>) >>) >>
    /\ warnings = 1
    /\ inventory = (1490 :> 4 @@ 225 :> 2)
    /\ sold_data = (1490 :> 1 @@ 225 :> 1)
    /\ LogQty(total_sales_log, 9, 1490) = 1 /\ LogQty(total_sales_log, 9, 225) = 1
    /\ all_new_processed_ids = <<"1001">>

WithoutSamples(order_list) ==
    [i \in 1..Len(order_list) |->
        [order_list[i] EXCEPT !.line_items =
            SelectSeq(@, LAMBDA item : ~SampleInAnyCase(item.title))]]

\* C18: a line item whose title holds "sample" in any letter case changes
\* nothing: when process_orders returns, inventory, sold, the sales log and the
\* USA sales log are what the call gives on the same orders without their
\* sample line items, whatever digits, properties or bundle marker these carry.
C18_SampleChangesNothing ==
    [][ ProcessReturned =>
          LET r == process_orders(SHOPIFY_CONFIGS[shop].domain, WithoutSamples(orders),
                                  inventory, sold_data, processed_orders,
                                  SHOPIFY_CONFIGS[shop].use_prefix)
          IN  /\ inventory' = r.inventory
              /\ sold_data' = r.sold
              /\ total_sales_log' = MergeLog(total_sales_log, r.sales_log)
              /\ total_sales_log_usa' = MergeLog(total_sales_log_usa, r.sales_log_usa)
              /\ warnings' = warnings + r.warnings ]_vars

\* "SAMPLE Fragrance Bundle 3x" with the properties 149, 22.5 and rose, after
\* "22.5 sAMPLe" x2: nothing is sold, nothing is warned of, the order is marked
C18_Witness ==
    /\ pc = "fetch"
    /\ orders = << Order(1001, At(9, 12, 0), "US",
                     << Item(MixedSample225, 2),
                        Bundle(SampleBundle3x, 1, <<Value149, Value225, ValueRose>>) >>) >>
    /\ inventory = (1490 :> 5 @@ 225 :> 3)
    /\ sold_data = (1490 :> 0 @@ 225 :> 0)
    /\ total_sales_log = <<>>
    /\ total_sales_log_usa = <<>>
    /\ warnings = 0
    /\ all_new_processed_ids = <<"1001">>

-----------------------------------------------------------------------------
AllDigits(text, a, b) == \A j \in a..b : j \in 1..Len(text) /\ text[j] \in
    {"0", "1", "2", "3", "4", "5", "6", "7", "8", "9"}

AtTokenEnd(text, e) == e = Len(text) \/ ~IsWord(text[e + 1])

\* positions i..e hold 1 to 3 digits, or 1 to 3 digits, a point and digits, and
\* end at a token boundary
IsKeyRun(text, i, e) ==
    /\ 1 <= i /\ i <= e /\ e <= Len(text)
    /\ AtTokenEnd(text, e)
    /\ \E n \in 1..3 :
          /\ AllDigits(text, i, i + n - 1)
          /\ \/ e = i + n - 1
             \/ /\ e >= i + n + 1
                /\ text[i + n] = "."
                /\ AllDigits(text, i + n + 1, e)

\* the first such run, the longest of those that start where it starts
FirstKeyRun(text) ==
    LET runs == { ie \in (1..Len(text)) \X (1..Len(text)) : IsKeyRun(text, ie[1], ie[2]) }
    IN  IF runs = {} THEN None
        ELSE LET i == CHOOSE x \in {r[1] : r \in runs} : \A r \in runs : x <= r[1]
                 e == CHOOSE y \in {r[2] : r \in runs} :
                        /\ <<i, y>> \in runs
                        /\ \A r \in runs : r[1] = i => r[2] <= y
             IN  Some(float_of_match(SubSeq(text, i, e)))

\* C20: extract_perfume_number returns the first run of 1 to 3 digits, with a
\* decimal fraction if one follows, that ends at a token boundary, as a number,
\* and None when there is no such run; for "Sample 22" it returns None, for
\* "Parfym 149" 149.0 and for "22.5 EDT" 22.5.
C20_FirstRunAtTokenBoundary ==
    pc = "resolved" =>
        /\ result = FirstKeyRun(arg)
        /\ arg = Sample22 => result = None
        /\ arg = Parfym149 => result = Some(1490)
        /\ arg = Edt225 => result = Some(225)

-----------------------------------------------------------------------------
\* the quantity of key k the unrecorded orders of store s sell
StoreQty(s, k) == ListQty(Unrecorded(s, shop_orders[s], processed_orders), k)

\* C21: orders of the secondary store are subtracted from the same tracked stock
\* as the master store's.  A process_orders call for the second store that
\* returns lowers inventory[k], which already holds the master store's
\* decrements, by the quantity its unrecorded orders sell of k; and the Antal
\* cell the run then writes for k is the value the run read minus the quantities
\* of both stores.
C21_SecondaryStoreSubtracts ==
    [][ /\ (pc = "process" /\ shop = 2 /\ pc' # "failed") =>
              \A k \in DOMAIN inventory :
                  inventory'[k] = inventory[k] - ListQty(Unrecorded(2, orders, processed_orders), k)
        /\ (pc = "ledger" /\ pc' = "sold") =>
              \A k \in DOMAIN get_inventory_and_sold(blad1).inventory :
                  blad1'[PerfumeToRow(blad1)[k] - 1].antal =
                      Num(get_inventory_and_sold(blad1).inventory[k]
                            - StoreQty(1, k) - StoreQty(2, k)) ]_vars

\* the master store sold one 149 (order 1001) and the second store two (its own
\* order 1001): the run read 5 and wrote 2
C21_Witness ==
    /\ pc = "sold"
    /\ run = 1
    /\ shop_orders = << <<A1>>, <<B1>> >>
    /\ processed_orders = {}
    /\ blad1[1].nummer = "149"
    /\ blad1[1].antal = Num(2)
    /\ inventory[1490] = 2

-----------------------------------------------------------------------------
\* C22: a run that ends in the error path of main ("No changes saved.") changed
\* no persistent state: the processed_orders table, the ledger sheet and the two
\* dated sales tables are as the run found them, whichever step raised.
C22_FailedRunChangedNothing ==
    pc = "failed" => <<db, blad1, blad2, blad3>> = at_start

-----------------------------------------------------------------------------
\* the date rows are unique and in ascending order
Ascending(table) ==
    \A i, j \in 1..Len(table.rows) : i < j => table.rows[i].d < table.rows[j].d

DatesBefore(log, d) == SortedDates({x \in LogDates(log) : x < d})

\* the row index find_or_create_row_for_date returns for date d of the log, in
\* the pass of update_sales_data's loop that handles d
ReturnedRow(table, log, d) ==
    LET st == SalesDates([ok |-> TRUE, sheet |-> table,
                          dates |-> [i \in 1..Len(table.rows) |-> table.rows[i].d],
                          cell_updates |-> <<>>],
                         DatesBefore(log, d), log)
    IN  find_or_create_row_for_date(st.sheet, d, st.dates).row_index

HoldsDate(table, row_index, d) ==
    /\ row_index - 1 \in 1..Len(table.rows)
    /\ table.rows[row_index - 1].d = d

SortedAfter(table, log, after) ==
    Ascending(table) =>
        /\ Ascending(after)
        /\ \A d \in LogDates(log) : HoldsDate(after, ReturnedRow(table, log, d), d)

\* C23: update_sales_data keeps the date rows of a sales table unique and in
\* ascending order, for any sales log, and the row index it uses for the cells
\* of a date is the index of the row that holds the date when the batched cell
\* writes are applied, also when several dates of the log need new rows.
C23_DateRowsStaySorted ==
    [][ /\ (pc = "sales" /\ pc' = "sales_usa") =>
                SortedAfter(blad2, total_sales_log, blad2')
        /\ (pc = "sales_usa" /\ pc' = "ledger") =>
                SortedAfter(blad3, total_sales_log_usa, blad3') ]_vars

-----------------------------------------------------------------------------
\* the sum over dates of a log's entries for key k
LogTotal(log, k) ==
    SumUpTo([i \in 1..Len(log) |-> IF log[i].key = k THEN log[i].qty ELSE 0], Len(log))

\* C24: conservation in process_orders.  For a call that returns and every key
\* k, the snapshots keep their keys, inventory[k] + sold[k] is the same after the
\* call as before it, sold[k] grew by the sum over dates of the returned sales
\* log's entries for k, and the segmented (US) log never exceeds the sales log
\* at any (date, key).
C24_Conservation ==
    [][ (pc = "process" /\ pc' # "failed") =>
          LET cfg == SHOPIFY_CONFIGS[shop]
              r == process_orders(cfg.domain, orders, inventory, sold_data,
                                  processed_orders, cfg.use_prefix)
          IN  /\ DOMAIN inventory' = DOMAIN inventory
              /\ DOMAIN sold_data' = DOMAIN sold_data
              /\ \A k \in DOMAIN inventory \cap DOMAIN sold_data :
                    /\ inventory'[k] + sold_data'[k] = inventory[k] + sold_data[k]
                    /\ sold_data'[k] - sold_data[k] = LogTotal(r.sales_log, k)
              /\ \A k \in DOMAIN inventory \ DOMAIN sold_data : inventory'[k] = inventory[k]
              /\ \A k \in DOMAIN sold_data \ DOMAIN inventory : sold_data'[k] = sold_data[k]
              /\ \A k \in KeyUniverse \ DOMAIN sold_data : LogTotal(r.sales_log, k) = 0
              /\ \A d \in OrderDates : \A k \in KeyUniverse :
                    /\ LogQty(r.sales_log_usa, d, k) <= LogQty(r.sales_log, d, k)
                    /\ LogQty(r.sales_log_usa, d, k) >= 0
              /\ \A i \in 1..Len(r.sales_log_usa) :
                    r.sales_log_usa[i].date \in OrderDates
                    /\ r.sales_log_usa[i].key \in KeyUniverse ]_vars

\* the second store sold two 149 on day 9 to the US and one on day 10 elsewhere:
\* 5 + 0 became 2 + 3, the log holds 2 + 1 and the US log 2
C24_Witness ==
    /\ pc = "save"
    /\ shop_orders = << <<>>, <<B1, B2>> >>
    /\ at_start[2] = Ledger1
    /\ inventory[1490] = 2
    /\ sold_data[1490] = 3
    /\ total_sales_log = << [date |-> 9, key |-> 1490, qty |-> 2],
                            [date |-> 10, key |-> 1490, qty |-> 1] >>
    /\ total_sales_log_usa = << [date |-> 9, key |-> 1490, qty |-> 2] >>

-----------------------------------------------------------------------------
\* C25: after get_inventory_and_sold the inventory and sold snapshots have
\* exactly the same set of keys, for any sheet contents, so no process_orders
\* call updates sold for a key that sold lacks (no call ends in KeyError).
C25_SnapshotsShareKeys ==
    [][ /\ (pc = "start" /\ pc' = "fetch") => DOMAIN inventory' = DOMAIN sold_data'
        /\ pc = "process" => pc' # "failed" ]_vars

-----------------------------------------------------------------------------
(* One run of main, as SpecFetch, in which main goes on while it can: each   *)
(* remote call is answered, a call's answers hold finitely many 429 and a   *)
(* store's list has finitely many pages                                      *)

Steps == {"start", "fetch", "process", "save", "sales", "sales_usa", "ledger", "sold",
          "avg", "done", "failed"}

\* main is not at its end and moves on, to another step or to the next store
Advance ==
    /\ pc \notin {"done", "failed"}
    /\ \E p \in Steps : \E s \in 1..Len(SHOPIFY_CONFIGS) :
          /\ <<p, s>> # <<pc, shop>>
          /\ pc' = p
          /\ shop' = s

SpecLive == InitFetch /\ [][NextFetch]_vars /\ WF_<<pc, shop>>(Advance)

\* every step of the run is a step of Advance, so that the fairness of SpecLive
\* is weak fairness of the run's steps
EveryStepAdvances == [][Advance]_vars

\* the answers each safe_api_call of a fetch_new_orders call took, one call per
\* pass of the loop; a call on no listed answer is answered 200
RECURSIVE CallsOf(_, _)
CallsOf(attempts, n) ==
    IF n <= 0 THEN <<>>
    ELSE LET r == safe_api_call(FALSE, attempts)
             taken == IF attempts = <<>> THEN <<200>>
                      ELSE SubSeq(attempts, 1, Len(attempts) - Len(r.rest))
         IN  <<taken>> \o CallsOf(r.rest, n - 1)

Count429(answers) == Cardinality({i \in 1..Len(answers) : answers[i] = 429})

\* the run reaches its final step ("Script ended")
C26_Terminates == <>(pc \in {"done", "failed"})

\* C26: every run of main eventually reaches its final step, given that each
\* remote call is answered 429 only finitely many times in a row and every
\* pagination chain ends; and every safe_api_call returns after exactly one more
\* attempt than the number of 429 responses it received.
C26_TerminatesAfterRetries ==
    /\ <>(pc \in {"done", "failed"})
    /\ [](\A i \in 1..Len(http) :
            LET calls == CallsOf(http[i].attempts, Len(http[i].requested))
            IN  \A j \in 1..Len(calls) : Len(calls[j]) = Count429(calls[j]) + 1)

====
